---- MODULE Spec2Model ----
(***************************************************************************)
(* NervosDAO utilities (src/src/dao.ts): the transaction builder           *)
(* (deposit, requestWithdrawal, withdraw), the discovery of withdrawal     *)
(* requests, and the DaoCell / Deposit objects with their maturity.        *)
(*                                                                         *)
(* Indices are 0-based as in the source; the k-th element (0-based) of a   *)
(* TLA+ sequence s is s[k + 1].                                            *)
(***************************************************************************)
EXTENDS Integers, Sequences, FiniteSets, TLC

VARIABLES
    tx,        \* the SmartTransaction the builder calls act on
    last,      \* the last builder call: its arguments, the transaction before it, its outcome
    calls,     \* number of builder calls made on tx
    dao,       \* a DaoCell object (Deposit or WithdrawalRequest): its fields
    tip,       \* the header the DaoCell was last projected on
    client,    \* the cells the ledger client's findCells yields, in order
    found      \* the WithdrawalRequests yielded by findWithdrawalRequests

vars == <<tx, last, calls, dao, tip, client, found>>

----------------------------------------------------------------------------
(* Bounds of the model *)

MaxCalls == 2       \* builder calls made on one transaction
MaxBatch == 2       \* elements of one batch (capacities, deposits, withdrawal requests)
MaxDiff == 365      \* largest distance, in epochs, between the two headers of a DaoCell
MaxLength == 2      \* largest small epoch length (blocks per epoch) besides LockPeriod
MaxFound == 3       \* cells the ledger client yields in one search

----------------------------------------------------------------------------
(* Encodings *)

\* n as `bytes` little-endian bytes (negative numbers in two's complement).
RECURSIVE numLeToBytes(_, _)
numLeToBytes(n, bytes) ==
    IF bytes = 0 THEN <<>>
    ELSE <<n % 256>> \o numLeToBytes(n \div 256, bytes - 1)

\* mol.Uint64LE.encode
Uint64LE(n) == numLeToBytes(n, 8)

\* Dao.depositData(): "0x0000000000000000"
depositData == <<0, 0, 0, 0, 0, 0, 0, 0>>

\* ccc.epochToHex: number + (index << 24) + (length << 40), given here as the
\* three bit fields of that sum (24, 16 and 16 bits wide, carries included).
epochToHex(e) ==
    LET low == e[1] % 16777216
        c1 == e[1] \div 16777216
        mid == (e[2] + c1) % 65536
        c2 == (e[2] + c1) \div 65536
    IN  <<low, mid, e[3] + c2>>

----------------------------------------------------------------------------
(* Scripts, headers and cells *)

\* The Dao instance: this.script and this.cellDeps
DaoScript == [codeHash |-> "dao", hashType |-> "type", args |-> <<>>]
DaoCellDeps == <<"daoDep">>

\* A type script with the code hash of the DAO and other arguments.
OtherScript == [codeHash |-> "dao", hashType |-> "type", args |-> <<1>>]

LockA == [codeHash |-> "secp", hashType |-> "type", args |-> <<10>>]
LockB == [codeHash |-> "secp", hashType |-> "type", args |-> <<20, 21>>]

\* The lock the caller asks for in deposit and requestWithdrawal.
CallLocks == {LockA}

\* An optional value is a sequence of length 0 (absent) or 1 (present).
None == <<>>
Some(v) == <<v>>

LockPeriod == 180

\* BigInt division and remainder truncate toward zero.
TruncDiv(a, b) == IF a >= 0 THEN a \div b ELSE -((-a) \div b)
TruncRem(a, b) == a - b * TruncDiv(a, b)

\* A block header: number, hash, epoch <<number, index, length>> and the
\* accumulated rate of its dao field.
Header(n, e, ar) == [number |-> n, hash |-> <<"block", n>>, epoch |-> e, ar |-> ar]

\* A TransactionHeader {header, txHash?}
TransactionHeader(h, txHash) == [header |-> h, txHash |-> txHash]

Cell(txHash, index, capacity, lock, type, data) ==
    [outPoint |-> [txHash |-> txHash, index |-> index],
     cellOutput |-> [capacity |-> capacity, lock |-> lock, type |-> type],
     outputData |-> data]

\* Script.occupiedSize: code hash (32) + hash type (1) + args
ScriptOccupiedSize(s) == 33 + Len(s.args)

\* Cell.capacityFree: the capacity minus the occupied size (capacity (8), lock,
\* type, output data); one byte costs one capacity unit here.
capacityFree(cell) ==
    cell.cellOutput.capacity
        - (8 + ScriptOccupiedSize(cell.cellOutput.lock)
             + (IF cell.cellOutput.type = None THEN 0
                ELSE ScriptOccupiedSize(cell.cellOutput.type[1]))
             + Len(cell.outputData))

\* ccc.calcDaoProfit
calcDaoProfit(profitableSize, depositHeader, withdrawHeader) ==
    TruncDiv(profitableSize * withdrawHeader.ar, depositHeader.ar) - profitableSize

\* ccc.calcDaoClaimEpoch
calcDaoClaimEpoch(depositHeader, withdrawHeader) ==
    LET depositEpoch == depositHeader.epoch
        withdrawEpoch == withdrawHeader.epoch
        intDiff == withdrawEpoch[1] - depositEpoch[1]
    IN  IF \/ TruncRem(intDiff, LockPeriod) # 0
           \/ depositEpoch[2] * withdrawEpoch[3] <= depositEpoch[3] * withdrawEpoch[2]
        THEN <<depositEpoch[1] + (TruncDiv(intDiff, LockPeriod) + 1) * LockPeriod,
               depositEpoch[2], depositEpoch[3]>>
        ELSE <<depositEpoch[1] + TruncDiv(intDiff, LockPeriod) * LockPeriod,
               depositEpoch[2], depositEpoch[3]>>

----------------------------------------------------------------------------
(* DaoCell, Deposit, WithdrawalRequest *)

\* DaoCell.constructor: this.interests
SwappedDaoCellInterests(cell, deposit, withdrawalRequest) ==
    calcDaoProfit(capacityFree(cell), withdrawalRequest.header, deposit.header)

DaoCellInterests(cell, deposit, withdrawalRequest) ==
    calcDaoProfit(capacityFree(cell), deposit.header, withdrawalRequest.header)

\* DaoCell.constructor: this.maturity
SwappedDaoCellMaturity(deposit, withdrawalRequest) ==
    calcDaoClaimEpoch(withdrawalRequest.header, deposit.header)

DaoCellMaturity(deposit, withdrawalRequest) ==
    calcDaoClaimEpoch(deposit.header, withdrawalRequest.header)

\* DaoCell.constructor
DaoCell(cell, deposit, withdrawalRequest) ==
    [cell |-> cell,
     transactionHeaders |-> <<deposit, withdrawalRequest>>,
     interests |-> DaoCellInterests(cell, deposit, withdrawalRequest),
     maturity |-> DaoCellMaturity(deposit, withdrawalRequest)]

\* epochCompare(a, b): the epoch number first, then index/length compared as
\* rationals by cross-multiplication; -1 less, 0 equal, 1 greater.
epochCompare(a, b) ==
    IF a[1] < b[1] THEN -1
    ELSE IF a[1] > b[1] THEN 1
    ELSE IF a[2] * b[3] < b[2] * a[3] THEN -1
    ELSE IF a[2] * b[3] > b[2] * a[3] THEN 1
    ELSE 0

\* A comparison with the two cells exchanged.
ReversedMaturityCompare(this, other) == epochCompare(other.maturity, this.maturity)

\* DaoCell.maturityCompare(other)
maturityCompare(this, other) == epochCompare(this.maturity, other.maturity)

\* class WithdrawalRequest extends DaoCell {}
WithdrawalRequest(cell, deposit, withdrawalRequest) ==
    DaoCell(cell, deposit, withdrawalRequest)

\* Deposit.constructor: super(cell, deposit, {header: tip}), then pop()
Deposit(cell, deposit, tipHeader) ==
    LET d == DaoCell(cell, deposit, TransactionHeader(tipHeader, None))
    IN  [d EXCEPT !.transactionHeaders = SubSeq(@, 1, Len(@) - 1)]

\* An update that recomputes the maturity and leaves the interests as they were.
StaleInterestsDepositUpdate(d, tipHeader) ==
    IF d.transactionHeaders = <<>>
    THEN [ok |-> FALSE, dao |-> d]
    ELSE LET depositHeader == d.transactionHeaders[1].header
         IN  [ok |-> TRUE,
              dao |-> [d EXCEPT
                  !.maturity = calcDaoClaimEpoch(depositHeader, tipHeader)]]

\* An update that recomputes the interests and leaves the maturity as it was.
StaleMaturityDepositUpdate(d, tipHeader) ==
    IF d.transactionHeaders = <<>>
    THEN [ok |-> FALSE, dao |-> d]
    ELSE LET depositHeader == d.transactionHeaders[1].header
         IN  [ok |-> TRUE,
              dao |-> [d EXCEPT
                  !.interests = calcDaoProfit(capacityFree(d.cell), depositHeader, tipHeader)]]

\* Deposit.update: the object after update(tip); "throws" when the deposit
\* header is missing.
DepositUpdate(d, tipHeader) ==
    IF d.transactionHeaders = <<>>
    THEN [ok |-> FALSE, dao |-> d]
    ELSE LET depositHeader == d.transactionHeaders[1].header
         IN  [ok |-> TRUE,
              dao |-> [d EXCEPT
                  !.interests = calcDaoProfit(capacityFree(d.cell), depositHeader, tipHeader),
                  !.maturity = calcDaoClaimEpoch(depositHeader, tipHeader)]]

----------------------------------------------------------------------------
(* The transaction container (SmartTransaction): inputs, outputs, outputsData,
   headerDeps, cellDeps, witnesses *)

\* WitnessArgs: three optional fields; a raw witness "0x" is None.
EmptyWitnessArgs == [lock |-> None, inputType |-> None, outputType |-> None]

\* Array.prototype.findIndex: the 0-based index of the first element equal to v, or -1.
RECURSIVE FindIndexFrom(_, _, _)
FindIndexFrom(s, v, i) ==
    IF i >= Len(s) THEN -1
    ELSE IF s[i + 1] = v THEN i
    ELSE FindIndexFrom(s, v, i + 1)

FindIndex(s, v) == FindIndexFrom(s, v, 0)

\* tx.addCellDeps: appends the cell-deps the transaction does not hold yet.
RECURSIVE AddCellDeps(_, _)
AddCellDeps(t, deps) ==
    IF deps = <<>> THEN t
    ELSE AddCellDeps(
            IF FindIndex(t.cellDeps, Head(deps)) >= 0 THEN t
            ELSE [t EXCEPT !.cellDeps = Append(@, Head(deps))],
            Tail(deps))

\* tx.addHeaders: appends each header's hash to headerDeps unless already there.
RECURSIVE AddHeaders(_, _)
AddHeaders(t, transactionHeaders) ==
    IF transactionHeaders = <<>> THEN t
    ELSE LET hash == Head(transactionHeaders).header.hash
         IN  AddHeaders(
                IF FindIndex(t.headerDeps, hash) >= 0 THEN t
                ELSE [t EXCEPT !.headerDeps = Append(@, hash)],
                Tail(transactionHeaders))

\* tx.addInput: appends the input; the call returns the new length, Len(inputs).
AddInput(t, input) == [t EXCEPT !.inputs = Append(@, input)]

\* tx.setOutputDataAt: pads outputsData with "0x" up to index, then sets it.
RECURSIVE SetOutputDataAt(_, _, _)
SetOutputDataAt(t, index, data) ==
    IF Len(t.outputsData) < index
    THEN SetOutputDataAt([t EXCEPT !.outputsData = Append(@, <<>>)], index, data)
    ELSE IF Len(t.outputsData) = index
    THEN [t EXCEPT !.outputsData = Append(@, data)]
    ELSE [t EXCEPT !.outputsData[index + 1] = data]

\* tx.addOutput: appends the output and sets the output data at its index.
AddOutput(t, output, data) ==
    SetOutputDataAt([t EXCEPT !.outputs = Append(@, output)], Len(t.outputs), data)

\* tx.getWitnessArgsAt: None (undefined) for a missing or empty witness.
GetWitnessArgsAt(t, index) ==
    IF index < Len(t.witnesses) THEN t.witnesses[index + 1] ELSE None

\* tx.setWitnessArgsAt: pads witnesses with "0x" up to index, then sets it.
RECURSIVE SetWitnessArgsAt(_, _, _)
SetWitnessArgsAt(t, index, witness) ==
    IF Len(t.witnesses) < index
    THEN SetWitnessArgsAt([t EXCEPT !.witnesses = Append(@, None)], index, witness)
    ELSE IF Len(t.witnesses) = index
    THEN [t EXCEPT !.witnesses = Append(@, Some(witness))]
    ELSE [t EXCEPT !.witnesses[index + 1] = Some(witness)]

\* CellInput: previous output, the cell it resolves to, and the since field
\* (None is the default since, 0).
CellInput(outPoint, cellOutput, outputData, since) ==
    [outPoint |-> outPoint, cellOutput |-> cellOutput,
     outputData |-> outputData, since |-> since]

\* The outcome of a builder call: the transaction it leaves, the error it
\* threw ("none" when it returned) and the 0-based batch element it threw at.
Outcome(t, error, failedAt) == [tx |-> t, error |-> error, failedAt |-> failedAt]

----------------------------------------------------------------------------
(* Dao.deposit *)

\* The output without the DAO type script.
UntypedDepositOutput(capacity, l) ==
    [capacity |-> capacity, lock |-> l, type |-> None]

DepositOutput(capacity, l) ==
    [capacity |-> capacity, lock |-> l, type |-> Some(DaoScript)]

RECURSIVE DepositLoop(_, _, _)
DepositLoop(t, capacities, l) ==
    IF capacities = <<>> THEN t
    ELSE DepositLoop(AddOutput(t, DepositOutput(Head(capacities), l), depositData),
                     Tail(capacities), l)

deposit(t, capacities, lock) ==
    Outcome(DepositLoop(AddCellDeps(t, DaoCellDeps), capacities, lock), "none", -1)

----------------------------------------------------------------------------
(* Dao.requestWithdrawal *)

\* The guard of the call: inputs, outputs and outputsData have the same length.
Balanced(t) ==
    /\ Len(t.inputs) = Len(t.outputs)
    /\ Len(t.outputs) = Len(t.outputsData)

\* The size check made whatever sameSizeArgs says.
UnconditionalLockArgSizeMismatch(cell, l, sameSizeArgs) ==
    Len(cell.cellOutput.lock.args) # Len(l.args)

\* The size check of one deposit: true when the call throws.
LockArgSizeMismatch(cell, l, sameSizeArgs) ==
    sameSizeArgs /\ Len(cell.cellOutput.lock.args) # Len(l.args)

\* The deposit block's number encoded big-endian rather than little-endian.
RECURSIVE Reverse(_)
Reverse(b) == IF b = <<>> THEN <<>> ELSE Append(Reverse(Tail(b)), Head(b))

BigEndianRequestData(depositTransactionHeader) ==
    Reverse(Uint64LE(depositTransactionHeader.header.number))

\* The output data of the withdrawal request of a deposit.
RequestData(depositTransactionHeader) ==
    Uint64LE(depositTransactionHeader.header.number)

\* The body of the loop once the checks passed: headers, input, output.
RequestWithdrawalAppend(t, d, l) ==
    LET cell == d.cell
        depositTransactionHeader == d.transactionHeaders[1]
        t1 == AddHeaders(t, d.transactionHeaders)
        t2 == AddInput(t1, CellInput(cell.outPoint, cell.cellOutput, cell.outputData, None))
    IN  AddOutput(t2,
                  [capacity |-> cell.cellOutput.capacity, lock |-> l,
                   type |-> Some(DaoScript)],
                  RequestData(depositTransactionHeader))

RECURSIVE RequestWithdrawalLoop(_, _, _, _, _)
RequestWithdrawalLoop(t, deposits, l, sameSizeArgs, k) ==
    IF k >= Len(deposits) THEN Outcome(t, "none", -1)
    ELSE LET d == deposits[k + 1]
         IN  IF LockArgSizeMismatch(d.cell, l, sameSizeArgs)
             THEN Outcome(t, "LockArgSizeMismatch", k)
             ELSE IF d.transactionHeaders = <<>>
             THEN Outcome(t, "MissingHeader", k)
             ELSE RequestWithdrawalLoop(RequestWithdrawalAppend(t, d, l),
                                        deposits, l, sameSizeArgs, k + 1)

\* The balance check made after the cell-deps were added.
LateCheckRequestWithdrawal(t, deposits, lock, sameSizeArgs) ==
    IF ~Balanced(t)
    THEN Outcome(AddCellDeps(t, DaoCellDeps), "StructuralMismatch", -1)
    ELSE RequestWithdrawalLoop(AddCellDeps(t, DaoCellDeps), deposits, lock, sameSizeArgs, 0)

\* The call without the check of the lengths.
UncheckedRequestWithdrawal(t, deposits, lock, sameSizeArgs) ==
    RequestWithdrawalLoop(AddCellDeps(t, DaoCellDeps), deposits, lock, sameSizeArgs, 0)

requestWithdrawal(t, deposits, lock, sameSizeArgs) ==
    IF ~Balanced(t)
    THEN Outcome(t, "StructuralMismatch", -1)
    ELSE RequestWithdrawalLoop(AddCellDeps(t, DaoCellDeps), deposits, lock, sameSizeArgs, 0)

----------------------------------------------------------------------------
(* Dao.withdraw *)

\* The 1-based position of the deposit header instead of its 0-based index.
OneBasedHeaderIndex(t, depositTransactionHeader) ==
    FindIndex(t.headerDeps, depositTransactionHeader.header.hash) + 1

\* The index of the deposit header among the header-deps of the transaction.
HeaderIndex(t, depositTransactionHeader) ==
    FindIndex(t.headerDeps, depositTransactionHeader.header.hash)

\* The input with a relative since instead of an absolute one.
RelativeWithdrawInput(withdrawalRequest) ==
    CellInput(withdrawalRequest.cell.outPoint,
              withdrawalRequest.cell.cellOutput,
              withdrawalRequest.cell.outputData,
              Some([relative |-> "relative", metric |-> "epoch",
                    value |-> epochToHex(withdrawalRequest.maturity)]))

\* The input of a withdrawal request: absolute epoch since at its maturity.
WithdrawInput(withdrawalRequest) ==
    CellInput(withdrawalRequest.cell.outPoint,
              withdrawalRequest.cell.cellOutput,
              withdrawalRequest.cell.outputData,
              Some([relative |-> "absolute", metric |-> "epoch",
                    value |-> epochToHex(withdrawalRequest.maturity)]))

\* The witness written before the conflict check.
EagerWithdrawElement(t1, withdrawalRequest, k) ==
    LET depositTransactionHeader == withdrawalRequest.transactionHeaders[1]
        headerIndex == HeaderIndex(t1, depositTransactionHeader)
        t2 == AddInput(t1, WithdrawInput(withdrawalRequest))
        inputIndex == Len(t2.inputs) - 1
        got == GetWitnessArgsAt(t2, inputIndex)
        witness == IF got = None THEN EmptyWitnessArgs ELSE got[1]
        t3 == SetWitnessArgsAt(t2, inputIndex,
                [witness EXCEPT !.inputType = Some(numLeToBytes(headerIndex, 8))])
    IN  IF witness.inputType # None
        THEN Outcome(t3, "WitnessConflict", k)
        ELSE Outcome(t3, "none", -1)

\* The header index written to the witness of the first input, whatever the
\* position of the input just added.
FirstWitnessWithdrawElement(t1, withdrawalRequest, k) ==
    LET depositTransactionHeader == withdrawalRequest.transactionHeaders[1]
        headerIndex == HeaderIndex(t1, depositTransactionHeader)
        t2 == AddInput(t1, WithdrawInput(withdrawalRequest))
        inputIndex == Len(t2.inputs) - 1
        got == GetWitnessArgsAt(t2, inputIndex)
        witness == IF got = None THEN EmptyWitnessArgs ELSE got[1]
    IN  IF witness.inputType # None
        THEN Outcome(t2, "WitnessConflict", k)
        ELSE Outcome(SetWitnessArgsAt(t2, 0,
                        [witness EXCEPT !.inputType = Some(numLeToBytes(headerIndex, 8))]),
                     "none", -1)

\* One withdrawal request with its deposit header: header index, input, witness.
WithdrawElement(t1, withdrawalRequest, k) ==
    LET depositTransactionHeader == withdrawalRequest.transactionHeaders[1]
        headerIndex == HeaderIndex(t1, depositTransactionHeader)
        t2 == AddInput(t1, WithdrawInput(withdrawalRequest))
        inputIndex == Len(t2.inputs) - 1
        got == GetWitnessArgsAt(t2, inputIndex)
        witness == IF got = None THEN EmptyWitnessArgs ELSE got[1]
    IN  IF witness.inputType # None
        THEN Outcome(t2, "WitnessConflict", k)
        ELSE Outcome(SetWitnessArgsAt(t2, inputIndex,
                        [witness EXCEPT !.inputType = Some(numLeToBytes(headerIndex, 8))]),
                     "none", -1)

RECURSIVE WithdrawLoop(_, _, _)
WithdrawLoop(t, withdrawalRequests, k) ==
    IF k >= Len(withdrawalRequests) THEN Outcome(t, "none", -1)
    ELSE LET withdrawalRequest == withdrawalRequests[k + 1]
             t1 == AddHeaders(t, withdrawalRequest.transactionHeaders)
         IN  IF withdrawalRequest.transactionHeaders = <<>>
             THEN Outcome(t1, "MissingHeader", k)
             ELSE LET r == WithdrawElement(t1, withdrawalRequest, k)
                  IN  IF r.error # "none" THEN r
                      ELSE WithdrawLoop(r.tx, withdrawalRequests, k + 1)

withdraw(t, withdrawalRequests) ==
    WithdrawLoop(AddCellDeps(t, DaoCellDeps), withdrawalRequests, 0)

----------------------------------------------------------------------------
(* Dao.isDeposit, Dao.isWithdrawalRequest, Dao.findWithdrawalRequests *)

\* type?.eq(this.script) === true
TypeIsDao(cell) ==
    cell.cellOutput.type # None /\ cell.cellOutput.type[1] = DaoScript

isDeposit(cell) == cell.outputData = depositData /\ TypeIsDao(cell)

\* The check of the output data without the check of the type script.
UntypedIsWithdrawalRequest(cell) == cell.outputData # depositData

isWithdrawalRequest(cell) == cell.outputData # depositData /\ TypeIsDao(cell)

\* The number of the block that holds a transaction.
TxBlockNumber(txHash) ==
    CASE txHash = "d0" -> 0
      [] txHash = "d1" -> 258
      [] txHash = "d2" -> 3
      [] txHash = "w0" -> 258
      [] txHash = "w1" -> 800
      [] txHash = "w2" -> 3
      [] OTHER -> 1

\* The header of block n: four blocks per epoch, a growing accumulated rate.
BlockHeaderAt(n) == Header(n, <<n \div 4, n % 4, 4>>, 10000 + n)

\* getHeader(client, key): the header of the block holding a transaction, or
\* the header of the block of a given number.
getHeader(key) ==
    IF key.type = "txHash" THEN BlockHeaderAt(TxBlockNumber(key.value))
    ELSE BlockHeaderAt(key.value)

\* The WithdrawalRequest yielded for a cell that passed the filter.
FoundWithdrawalRequest(cell) ==
    LET txHash == cell.outPoint.txHash
        header == getHeader([type |-> "txHash", value |-> txHash])
        depositHeader == getHeader([type |-> "number", value |-> header.number])
    IN  WithdrawalRequest(cell,
                          TransactionHeader(depositHeader, None),
                          TransactionHeader(header, Some(txHash)))

\* The requests findWithdrawalRequests yields over the cells the client finds.
RECURSIVE findWithdrawalRequests(_, _)
findWithdrawalRequests(cells, lock) ==
    IF cells = <<>> THEN <<>>
    ELSE LET cell == Head(cells)
         IN  IF ~isWithdrawalRequest(cell) \/ cell.cellOutput.lock # lock
             THEN findWithdrawalRequests(Tail(cells), lock)
             ELSE <<FoundWithdrawalRequest(cell)>>
                      \o findWithdrawalRequests(Tail(cells), lock)

----------------------------------------------------------------------------
(* The chain and the objects handed to the builder *)

TipHeader == BlockHeaderAt(1000)

DepositCell(txHash, capacity, lock) ==
    Cell(txHash, 0, capacity, lock, Some(DaoScript), depositData)

\* Deposits as findDeposits or a caller builds them; the last one has lost its
\* deposit header (transactionHeaders is a public field).
DepositPool ==
    { Deposit(DepositCell("d0", 200, LockA),
              TransactionHeader(BlockHeaderAt(0), Some("d0")), TipHeader),
      Deposit(DepositCell("d1", 300, LockB),
              TransactionHeader(BlockHeaderAt(258), Some("d1")), TipHeader),
      [Deposit(DepositCell("d2", 400, LockA),
               TransactionHeader(BlockHeaderAt(3), Some("d2")), TipHeader)
          EXCEPT !.transactionHeaders = <<>>] }

RequestCell(txHash, capacity, lock, depositNumber) ==
    Cell(txHash, 0, capacity, lock, Some(DaoScript), Uint64LE(depositNumber))

\* Withdrawal requests, each with its deposit header and its own header; the
\* last one has lost its headers.
WithdrawalRequestPool ==
    { WithdrawalRequest(RequestCell("w0", 200, LockA, 3),
                        TransactionHeader(BlockHeaderAt(3), None),
                        TransactionHeader(BlockHeaderAt(258), Some("w0"))),
      WithdrawalRequest(RequestCell("w1", 300, LockB, 258),
                        TransactionHeader(BlockHeaderAt(258), None),
                        TransactionHeader(BlockHeaderAt(800), Some("w1"))),
      [WithdrawalRequest(RequestCell("w2", 400, LockA, 0),
                         TransactionHeader(BlockHeaderAt(0), None),
                         TransactionHeader(BlockHeaderAt(3), Some("w2")))
          EXCEPT !.transactionHeaders = <<>>] }

\* The batches of at most MaxBatch distinct elements of a pool, in any order.
Batches(pool) ==
    { b \in UNION { [1..n -> pool] : n \in 0..MaxBatch } :
        \A i, j \in DOMAIN b : b[i] = b[j] => i = j }

Capacities == {61, 82}

\* A transaction as the caller built it so far: plain cells, some header-deps,
\* some witnesses (one of them with its input-type field in use).
PlainInput(i) ==
    CellInput([txHash |-> "p", index |-> i],
              [capacity |-> 100, lock |-> LockA, type |-> None], <<>>, None)

PlainOutput(i) == [capacity |-> 100 - i, lock |-> LockA, type |-> None]

UsedWitness == [EmptyWitnessArgs EXCEPT !.inputType = Some(Uint64LE(7))]
LockWitness == [EmptyWitnessArgs EXCEPT !.lock = Some(<<1, 2, 3>>)]

InitialShapes == {<<0, 0, 0>>, <<1, 1, 1>>, <<2, 1, 1>>, <<1, 1, 0>>}

InitialHeaderDeps == {<<>>, <<BlockHeaderAt(800).hash, BlockHeaderAt(3).hash>>}

InitialWitnesses ==
    {<<>>, <<Some(UsedWitness)>>, <<Some(LockWitness), Some(UsedWitness)>>}

InitialTransactions ==
    { [inputs |-> [i \in 1..shape[1] |-> PlainInput(i - 1)],
       outputs |-> [i \in 1..shape[2] |-> PlainOutput(i - 1)],
       outputsData |-> [i \in 1..shape[3] |-> <<>>],
       headerDeps |-> h,
       cellDeps |-> <<"secpDep">>,
       witnesses |-> w] :
      shape \in InitialShapes, h \in InitialHeaderDeps, w \in InitialWitnesses }

\* No builder call made yet.
NoCall(t) ==
    [op |-> "none", pre |-> t, batch |-> <<>>, capacities |-> <<>>,
     lock |-> LockA, sameSizeArgs |-> TRUE, error |-> "none", failedAt |-> -1,
     start |-> t, deposited |-> 0, withdrawn |-> 0, others |-> FALSE]

----------------------------------------------------------------------------
(* The builder calls on one transaction *)

\* The outputs the deposit calls made so far appended.
DepositedSoFar ==
    last.deposited
      + (IF last.op = "deposit" THEN Len(tx.outputs) - Len(last.pre.outputs) ELSE 0)

\* The inputs the withdraw calls made so far appended.
WithdrawnSoFar ==
    last.withdrawn
      + (IF last.op = "withdraw" THEN Len(tx.inputs) - Len(last.pre.inputs) ELSE 0)

\* A deposit or a withdraw call was made so far.
OthersSoFar == last.others \/ last.op \in {"deposit", "withdraw"}

DepositCall(capacities, lock) ==
    /\ calls < MaxCalls
    /\ LET r == deposit(tx, capacities, lock)
       IN  /\ tx' = r.tx
           /\ last' = [op |-> "deposit", pre |-> tx, batch |-> <<>>,
                       capacities |-> capacities, lock |-> lock,
                       sameSizeArgs |-> TRUE, error |-> r.error, failedAt |-> r.failedAt,
                       start |-> last.start, deposited |-> DepositedSoFar,
                       withdrawn |-> WithdrawnSoFar, others |-> OthersSoFar]
    /\ calls' = calls + 1
    /\ UNCHANGED <<dao, tip, client, found>>

RequestWithdrawalCall(deposits, lock, sameSizeArgs) ==
    /\ calls < MaxCalls
    /\ LET r == requestWithdrawal(tx, deposits, lock, sameSizeArgs)
       IN  /\ tx' = r.tx
           /\ last' = [op |-> "requestWithdrawal", pre |-> tx, batch |-> deposits,
                       capacities |-> <<>>, lock |-> lock,
                       sameSizeArgs |-> sameSizeArgs, error |-> r.error,
                       failedAt |-> r.failedAt,
                       start |-> last.start, deposited |-> DepositedSoFar,
                       withdrawn |-> WithdrawnSoFar, others |-> OthersSoFar]
    /\ calls' = calls + 1
    /\ UNCHANGED <<dao, tip, client, found>>

WithdrawCall(withdrawalRequests) ==
    /\ calls < MaxCalls
    /\ LET r == withdraw(tx, withdrawalRequests)
       IN  /\ tx' = r.tx
           /\ last' = [op |-> "withdraw", pre |-> tx, batch |-> withdrawalRequests,
                       capacities |-> <<>>, lock |-> LockA,
                       sameSizeArgs |-> TRUE, error |-> r.error, failedAt |-> r.failedAt,
                       start |-> last.start, deposited |-> DepositedSoFar,
                       withdrawn |-> WithdrawnSoFar, others |-> OthersSoFar]
    /\ calls' = calls + 1
    /\ UNCHANGED <<dao, tip, client, found>>

\* The values of the variables a specification does not use.
IdleDao == Deposit(DepositCell("d0", 200, LockA),
                   TransactionHeader(BlockHeaderAt(0), Some("d0")), TipHeader)

Init ==
    /\ tx \in InitialTransactions
    /\ last = NoCall(tx)
    /\ calls = 0
    /\ dao = IdleDao
    /\ tip = TipHeader
    /\ client = <<>>
    /\ found = <<>>

Next ==
    \/ \E capacities \in Batches(Capacities), lock \in CallLocks :
          DepositCall(capacities, lock)
    \/ \E deposits \in Batches(DepositPool), lock \in CallLocks, sameSizeArgs \in BOOLEAN :
          RequestWithdrawalCall(deposits, lock, sameSizeArgs)
    \/ \E withdrawalRequests \in Batches(WithdrawalRequestPool) :
          WithdrawCall(withdrawalRequests)

Spec == Init /\ [][Next]_vars

----------------------------------------------------------------------------
(* Properties of the builder calls *)

\* The batch elements the last call processed completely.
Processed == IF last.error = "none" THEN Len(last.batch) ELSE last.failedAt

\* The input requestWithdrawal appends for a deposit.
IsDepositInput(input, d) ==
    /\ input.outPoint = d.cell.outPoint
    /\ input.cellOutput = d.cell.cellOutput
    /\ input.outputData = d.cell.outputData

\* The deposits 0..n-1 of the last requestWithdrawal sit, in order, right
\* after the n0 inputs and outputs the transaction held before the call.
RequestsAppended(n) ==
    LET n0 == Len(last.pre.inputs)
    IN  /\ Len(tx.inputs) = n0 + n
        /\ Len(tx.outputs) = n0 + n
        /\ Len(tx.outputsData) = n0 + n
        /\ SubSeq(tx.inputs, 1, n0) = last.pre.inputs
        /\ SubSeq(tx.outputs, 1, n0) = last.pre.outputs
        /\ SubSeq(tx.outputsData, 1, n0) = last.pre.outputsData
        /\ \A k \in 0..(n - 1) :
              LET d == last.batch[k + 1]
              IN  /\ IsDepositInput(tx.inputs[n0 + k + 1], d)
                  /\ tx.outputs[n0 + k + 1].capacity = d.cell.cellOutput.capacity
                  /\ tx.outputs[n0 + k + 1].lock = last.lock
                  /\ tx.outputs[n0 + k + 1].type = Some(DaoScript)
                  /\ tx.outputsData[n0 + k + 1]
                        = numLeToBytes(d.transactionHeaders[1].header.number, 8)

\* C1: after a successful requestWithdrawal on a balanced transaction of n0
\* inputs, the input at n0+k is the k-th deposit's cell and the output at n0+k
\* carries its capacity, the given lock, the DAO type script and the 8-byte
\* little-endian number of the deposit block; the transaction is balanced again.
C1_PositionalAlignment ==
    (last.op = "requestWithdrawal" /\ last.error = "none") =>
        /\ Balanced(last.pre)
        /\ RequestsAppended(Len(last.batch))
        /\ Balanced(tx)

\* A second successful requestWithdrawal, of two deposits (one of block 258),
\* on a transaction a first one already extended.
C1_Witness ==
    /\ last.op = "requestWithdrawal" /\ last.error = "none"
    /\ calls = 2
    /\ Len(last.batch) = 2
    /\ \E k \in 1..2 : last.batch[k].transactionHeaders[1].header.number = 258
    /\ \E i \in 1..Len(last.pre.outputs) : last.pre.outputs[i].type = Some(DaoScript)

\* C2: the witness at the position of the input withdraw appended for a
\* processed request has an input-type field that is the 8-byte little-endian
\* encoding of an index i >= 0 with tx.headerDeps[i] the hash of the request's
\* deposit header.
C2_HeaderIndexWritten ==
    last.op = "withdraw" =>
        \A k \in 0..(Processed - 1) :
            LET p == Len(last.pre.inputs) + k
                hash == last.batch[k + 1].transactionHeaders[1].header.hash
            IN  /\ p < Len(tx.witnesses)
                /\ tx.witnesses[p + 1] # None
                /\ \E i \in 0..(Len(tx.headerDeps) - 1) :
                      /\ tx.witnesses[p + 1][1].inputType = Some(numLeToBytes(i, 8))
                      /\ tx.headerDeps[i + 1] = hash

\* A withdraw of two requests on a transaction that already held header-deps:
\* the deposit header of one was there, that of the other was appended.
C2_Witness ==
    /\ last.op = "withdraw" /\ last.error = "none"
    /\ Len(last.batch) = 2
    /\ last.pre.headerDeps # <<>>
    /\ Len(tx.headerDeps) > Len(last.pre.headerDeps)
    /\ \E k \in 1..2 :
          FindIndex(last.pre.headerDeps, last.batch[k].transactionHeaders[1].header.hash) >= 0

\* C3: requestWithdrawal on a transaction whose inputs, outputs and outputsData
\* are not of equal length fails with the structural error and leaves the
\* transaction exactly as it was.
C3_StructuralMismatchUnmodified ==
    (last.op = "requestWithdrawal" /\ ~Balanced(last.pre)) =>
        /\ last.error = "StructuralMismatch"
        /\ tx = last.pre

\* requestWithdrawal of some deposits on a transaction of 2 inputs and 1 output.
C3_Witness ==
    /\ last.op = "requestWithdrawal"
    /\ Len(last.pre.inputs) = 2 /\ Len(last.pre.outputs) = 1
    /\ Len(last.batch) > 0
    /\ last.error = "StructuralMismatch"

\* C4: when requestWithdrawal or withdraw fails at an element of its batch, the
\* transaction holds no input and no output of that element: only those of the
\* elements before it were appended.
C4_NoCellOfFailingElement ==
    (/\ last.op \in {"requestWithdrawal", "withdraw"}
     /\ last.error \in {"LockArgSizeMismatch", "MissingHeader", "WitnessConflict"}) =>
        /\ Len(tx.inputs) = Len(last.pre.inputs) + last.failedAt
        /\ Len(tx.outputs) = Len(last.pre.outputs)
                + (IF last.op = "requestWithdrawal" THEN last.failedAt ELSE 0)

\* The witness at a position of a transaction has an input-type field.
WitnessInUse(t, p) ==
    /\ p < Len(t.witnesses)
    /\ t.witnesses[p + 1] # None
    /\ t.witnesses[p + 1][1].inputType # None

\* C5: when the witness at the position withdraw targets already has an
\* input-type field, the call fails with WitnessConflict, and the outputs and
\* the witnesses (the conflicting one included) are those the transaction had
\* before the failing request was processed.
C5_WitnessConflict ==
    last.op = "withdraw" =>
        /\ \A k \in 0..(Len(last.batch) - 1) :
              (/\ WitnessInUse(last.pre, Len(last.pre.inputs) + k)
               /\ \A j \in 0..k : last.batch[j + 1].transactionHeaders # <<>>
               /\ \A j \in 0..(k - 1) : ~WitnessInUse(last.pre, Len(last.pre.inputs) + j))
              => (last.error = "WitnessConflict" /\ last.failedAt = k)
        /\ last.error = "WitnessConflict" =>
              LET before == withdraw(last.pre, SubSeq(last.batch, 1, last.failedAt))
                  p == Len(last.pre.inputs) + last.failedAt
              IN  /\ before.error = "none"
                  /\ tx.outputs = last.pre.outputs
                  /\ tx.outputsData = last.pre.outputsData
                  /\ tx.witnesses = before.tx.witnesses
                  /\ tx.witnesses[p + 1] = last.pre.witnesses[p + 1]
                  /\ tx.witnesses[p + 1][1].inputType # None

\* A withdraw of two requests that wrote the witness of the first and failed
\* with WitnessConflict at the second.
C5_Witness ==
    /\ last.op = "withdraw" /\ last.error = "WitnessConflict"
    /\ last.failedAt = 1
    /\ tx.witnesses # last.pre.witnesses

\* The first deposit of the last requestWithdrawal the call throws at, or the
\* length of the batch when there is none.
RECURSIVE FirstRejected(_)
FirstRejected(k) ==
    IF k >= Len(last.batch) THEN Len(last.batch)
    ELSE LET d == last.batch[k + 1]
         IN  IF \/ (last.sameSizeArgs
                      /\ Len(d.cell.cellOutput.lock.args) # Len(last.lock.args))
                \/ d.transactionHeaders = <<>>
             THEN k
             ELSE FirstRejected(k + 1)

\* C10: a requestWithdrawal on a balanced transaction that fails at the k-th
\* deposit (lock argument length with sameSizeArgs set, or missing header)
\* leaves exactly the inputs and outputs of deposits 0..k-1 appended in order,
\* nothing of the later ones, and a balanced transaction; with sameSizeArgs
\* false the argument length never makes it fail.
C10_PartialApplication ==
    (last.op = "requestWithdrawal" /\ Balanced(last.pre)) =>
        /\ last.error \in {"none", "LockArgSizeMismatch", "MissingHeader"}
        /\ Processed = FirstRejected(0)
        /\ RequestsAppended(Processed)
        /\ Balanced(tx)
        /\ last.error = "LockArgSizeMismatch" => last.sameSizeArgs
        /\ last.error = "LockArgSizeMismatch" =>
              Len(last.batch[last.failedAt + 1].cell.cellOutput.lock.args)
                  # Len(last.lock.args)
        /\ last.error = "MissingHeader" =>
              last.batch[last.failedAt + 1].transactionHeaders = <<>>

\* A requestWithdrawal with sameSizeArgs false that appended a first deposit
\* whose lock arguments are not as long as those of the given lock, and failed
\* at the second, which has no header.
C10_Witness ==
    /\ last.op = "requestWithdrawal"
    /\ ~last.sameSizeArgs
    /\ last.error = "MissingHeader"
    /\ last.failedAt = 1
    /\ Len(last.batch[1].cell.cellOutput.lock.args) # Len(last.lock.args)
    /\ Len(tx.inputs) = Len(last.pre.inputs) + 1

----------------------------------------------------------------------------
(* A Deposit and the chain tip it is projected on *)

\* Epoch lengths, and the positions <<index, length>> inside an epoch.
EpochLengths == (1..MaxLength) \cup {180}

Positions == { <<i, l>> : i \in 0..(MaxLength - 1), l \in EpochLengths } \ 
             { <<i, l>> \in (0..(MaxLength - 1)) \X EpochLengths : i >= l }

DepositEpochNumbers == {100, 400}

\* The header of a block at epoch e.
HeaderAtEpoch(e) == Header(e[1] * 200 + e[2], e, 10000 + e[1])

DepositHeaders ==
    { HeaderAtEpoch(<<n, p[1], p[2]>>) : n \in DepositEpochNumbers, p \in Positions }

\* The tips at most MaxDiff epochs away from a deposit header, before or after.
TipHeaders(depositHeader) ==
    { HeaderAtEpoch(<<n, p[1], p[2]>>) :
        n \in { m \in (depositHeader.epoch[1] - MaxDiff)..(depositHeader.epoch[1] + MaxDiff) :
                  m >= 0 },
        p \in Positions }

\* The tips a tip can advance to: itself, the next block of its epoch, or the
\* first block of the next epoch.
NextTips(h) ==
    { HeaderAtEpoch(e) :
        e \in {h.epoch}
              \cup { <<h.epoch[1], h.epoch[2] + 1, h.epoch[3]>> :
                       x \in { y \in {0} : <<h.epoch[2] + 1, h.epoch[3]>> \in Positions } }
              \cup { <<h.epoch[1] + 1, 0, l>> : l \in EpochLengths } }

InitMaturity ==
    /\ \E depositHeader \in DepositHeaders :
          \E tipHeader \in TipHeaders(depositHeader) :
              /\ dao = Deposit(DepositCell("d0", 200, LockA),
                               TransactionHeader(depositHeader, Some("d0")), tipHeader)
              /\ tip = tipHeader
    /\ tx \in { t \in InitialTransactions :
                  t.inputs = <<>> /\ t.witnesses = <<>> /\ t.headerDeps = <<>> }
    /\ last = NoCall(tx)
    /\ calls = 0
    /\ client = <<>>
    /\ found = <<>>

\* deposit.update(tip)
UpdateCall(tipHeader) ==
    /\ tipHeader.epoch[1] <= dao.transactionHeaders[1].header.epoch[1] + MaxDiff
    /\ LET r == DepositUpdate(dao, tipHeader)
       IN  /\ r.ok
           /\ dao' = r.dao
    /\ tip' = tipHeader
    /\ last' = [last EXCEPT !.op = "update"]
    /\ UNCHANGED <<tx, calls, client, found>>

NextMaturity == \E tipHeader \in NextTips(tip) : UpdateCall(tipHeader)

SpecMaturity == InitMaturity /\ [][NextMaturity]_vars

----------------------------------------------------------------------------
(* Properties of the maturity *)

DepositEpoch == dao.transactionHeaders[1].header.epoch
TipEpoch == tip.epoch

\* The tip is not before the deposit header (epochCompare(tip, deposit) >= 0).
TipNotBeforeDeposit ==
    \/ TipEpoch[1] > DepositEpoch[1]
    \/ /\ TipEpoch[1] = DepositEpoch[1]
       /\ TipEpoch[2] * DepositEpoch[3] >= DepositEpoch[2] * TipEpoch[3]

\* LockPeriod * k epochs compared with the time elapsed from the deposit to the
\* tip, (tip number + index/length) - (deposit number + index/length), both
\* sides multiplied by the two lengths.
PeriodsExceedElapsed(k) ==
    (LockPeriod * k - (TipEpoch[1] - DepositEpoch[1])) * TipEpoch[3] * DepositEpoch[3]
        > TipEpoch[2] * DepositEpoch[3] - DepositEpoch[2] * TipEpoch[3]

PeriodsCoverElapsed(k) ==
    (LockPeriod * k - (TipEpoch[1] - DepositEpoch[1])) * TipEpoch[3] * DepositEpoch[3]
        >= TipEpoch[2] * DepositEpoch[3] - DepositEpoch[2] * TipEpoch[3]

\* The maturity is the deposit epoch moved by a whole number of lock periods.
MaturityPeriods == (dao.maturity[1] - DepositEpoch[1]) \div LockPeriod

MaturityIsWholePeriods ==
    /\ dao.maturity[1] = DepositEpoch[1] + LockPeriod * MaturityPeriods
    /\ dao.maturity[2] = DepositEpoch[2]
    /\ dao.maturity[3] = DepositEpoch[3]

\* C7 as stated: for a tip not before the deposit, the maturity is the deposit
\* epoch plus 180*k epochs, k the smallest non-negative integer with 180*k
\* epochs >= the elapsed time.
C7_SmallestSufficientMultiple ==
    TipNotBeforeDeposit =>
        /\ MaturityIsWholePeriods
        /\ MaturityPeriods >= 0
        /\ PeriodsCoverElapsed(MaturityPeriods)
        /\ MaturityPeriods > 0 => ~PeriodsCoverElapsed(MaturityPeriods - 1)

\* C7 amended: for a tip not before the deposit, the maturity is the deposit
\* epoch plus 180*k epochs, k the smallest non-negative integer with 180*k
\* epochs strictly greater than the elapsed time: the maturity is later than
\* the tip, and no smaller multiple of 180 is.
C7_SmallestExceedingMultiple ==
    TipNotBeforeDeposit =>
        /\ MaturityIsWholePeriods
        /\ MaturityPeriods >= 0
        /\ PeriodsExceedElapsed(MaturityPeriods)
        /\ MaturityPeriods > 0 => ~PeriodsExceedElapsed(MaturityPeriods - 1)

\* A deposit updated to a tip more than one lock period and less than two
\* after it, at a later position in its epoch: the maturity is two periods on.
C7_Witness ==
    /\ last.op = "update"
    /\ TipEpoch[1] - DepositEpoch[1] > LockPeriod
    /\ TipEpoch[2] * DepositEpoch[3] > DepositEpoch[2] * TipEpoch[3]
    /\ MaturityPeriods = 2

\* C8: a deposit at epoch (100, 0, 180) seen from a header at (280, 0, 180)
\* matures at (460, 0, 180); whenever the epoch numbers differ by an exact
\* multiple of 180 and the two positions index/length are equal, the maturity
\* number is depositNumber + (diff/180 + 1) * 180.
C8_TieRoundsUp ==
    /\ (DepositEpoch = <<100, 0, 180>> /\ TipEpoch = <<280, 0, 180>>)
          => dao.maturity = <<460, 0, 180>>
    /\ (/\ (TipEpoch[1] - DepositEpoch[1]) % LockPeriod = 0
        /\ TipEpoch[2] * DepositEpoch[3] = DepositEpoch[2] * TipEpoch[3])
          => dao.maturity[1] = DepositEpoch[1]
                + ((TipEpoch[1] - DepositEpoch[1]) \div LockPeriod + 1) * LockPeriod

\* The deposit of epoch (100, 0, 180) updated to the tip (280, 0, 180).
C8_Witness ==
    /\ last.op = "update"
    /\ DepositEpoch = <<100, 0, 180>>
    /\ TipEpoch = <<280, 0, 180>>

\* Computing the maturity again from the same two headers gives the same epoch.
MaturityRepeatable == DepositUpdate(dao, tip).dao.maturity = dao.maturity

\* C9 as stated: for every pair of headers the maturity number is >= the
\* deposit epoch number, differs from it by a multiple of 180, the index and
\* length are the deposit's, and computing it again gives the same epoch.
C9_MaturityRange ==
    /\ dao.maturity[1] >= DepositEpoch[1]
    /\ MaturityIsWholePeriods
    /\ MaturityRepeatable

\* C9 amended: the maturity number is >= the deposit epoch number whenever the
\* withdraw epoch number is not less than the deposit epoch number; for every
\* pair of headers it differs from the deposit epoch number by a multiple of
\* 180, the index and length are the deposit's, and computing it again gives
\* the same epoch.
C9_MaturityRangeForward ==
    /\ TipEpoch[1] >= DepositEpoch[1] => dao.maturity[1] >= DepositEpoch[1]
    /\ MaturityIsWholePeriods
    /\ MaturityRepeatable

\* A deposit updated to a tip of a later epoch, at an earlier position, a whole
\* number of lock periods after it: the maturity is in the tip's epoch.
C9_Witness ==
    /\ last.op = "update"
    /\ TipEpoch[1] > DepositEpoch[1]
    /\ TipEpoch[2] * DepositEpoch[3] < DepositEpoch[2] * TipEpoch[3]
    /\ dao.maturity[1] = TipEpoch[1]

----------------------------------------------------------------------------
(* Discovery of withdrawal requests *)

\* The cells the client's search may yield: withdrawal requests (with the
\* number of their deposit block as data), a deposit, a cell without type.
ClientCells ==
    { RequestCell("w0", 200, LockA, 3),
      RequestCell("w1", 300, LockB, 258),
      RequestCell("w2", 400, LockA, 0),
      DepositCell("d0", 200, LockA),
      Cell("p", 0, 100, LockA, None, <<>>),
      Cell("o0", 0, 150, LockA, Some(OtherScript), depositData),
      Cell("o1", 0, 150, LockA, Some(OtherScript), Uint64LE(3)) }

InitFind ==
    /\ client \in { b \in UNION { [1..n -> ClientCells] : n \in 0..MaxFound } :
                      \A i, j \in DOMAIN b : b[i] = b[j] => i = j }
    /\ found = <<>>
    /\ tx \in { t \in InitialTransactions :
                  t.inputs = <<>> /\ t.witnesses = <<>> /\ t.headerDeps = <<>> }
    /\ last = NoCall(tx)
    /\ calls = 0
    /\ dao = IdleDao
    /\ tip = TipHeader

\* All the requests dao.findWithdrawalRequests(client, lock) yields.
FindWithdrawalRequestsCall(lock) ==
    /\ found' = findWithdrawalRequests(client, lock)
    /\ last' = [last EXCEPT !.op = "findWithdrawalRequests", !.lock = lock]
    /\ UNCHANGED <<tx, calls, dao, tip, client>>

NextFind == \E lock \in {LockA, LockB} : FindWithdrawalRequestsCall(lock)

SpecFind == InitFind /\ [][NextFind]_vars

\* C6: every WithdrawalRequest findWithdrawalRequests yields has as second
\* header the header of the block holding the cell's transaction, and as first
\* header the header of the deposit block, the block whose number is the
\* little-endian 8-byte value of the cell's output data.
C6_DepositHeaderOfFoundRequest ==
    \A i \in 1..Len(found) :
        LET r == found[i]
        IN  /\ Len(r.transactionHeaders) = 2
            /\ r.transactionHeaders[2].header
                  = BlockHeaderAt(TxBlockNumber(r.cell.outPoint.txHash))
            /\ r.cell.outputData = numLeToBytes(r.transactionHeaders[1].header.number, 8)
            /\ r.transactionHeaders[1].header
                  = BlockHeaderAt(r.transactionHeaders[1].header.number)

\* What the code yields: both headers are the header of the request's block.
FoundHeadersAreTheRequestHeader ==
    \A i \in 1..Len(found) :
        /\ isWithdrawalRequest(found[i].cell)
        /\ found[i].cell.cellOutput.lock = last.lock
        /\ found[i].transactionHeaders[2].header
              = BlockHeaderAt(TxBlockNumber(found[i].cell.outPoint.txHash))
        /\ found[i].transactionHeaders[1].header = found[i].transactionHeaders[2].header

\* C11: isDeposit and isWithdrawalRequest are never both true of a cell; when
\* its type script is the DAO script exactly one is true, isDeposit iff the
\* output data is the sentinel of 8 zero bytes; when its type script is absent
\* or another script both are false.
C11_CellClassification ==
    /\ \A i \in 1..Len(client) :
          LET cell == client[i]
          IN  /\ ~(isDeposit(cell) /\ isWithdrawalRequest(cell))
              /\ cell.cellOutput.type = Some(DaoScript) =>
                    /\ isDeposit(cell) <=> cell.outputData = <<0, 0, 0, 0, 0, 0, 0, 0>>
                    /\ isWithdrawalRequest(cell) <=> ~isDeposit(cell)
              /\ cell.cellOutput.type # Some(DaoScript) =>
                    ~isDeposit(cell) /\ ~isWithdrawalRequest(cell)
    /\ \A i \in 1..Len(found) :
          /\ found[i].cell.cellOutput.type = Some(DaoScript)
          /\ found[i].cell.outputData # <<0, 0, 0, 0, 0, 0, 0, 0>>

\* A search over a deposit, a withdrawal request and a cell of another type
\* script with data that is not the sentinel, which yielded the request alone.
C11_Witness ==
    /\ last.op = "findWithdrawalRequests"
    /\ Len(found) = 1
    /\ \E i \in 1..Len(client) : isDeposit(client[i])
    /\ \E i \in 1..Len(client) :
          /\ client[i].cellOutput.type = Some(OtherScript)
          /\ client[i].outputData # depositData

\* The Deposit is what the constructor builds from its cell, its deposit
\* header and the current tip.
DepositIsFreshProjection ==
    /\ Len(dao.transactionHeaders) = 1
    /\ dao.interests
          = calcDaoProfit(capacityFree(dao.cell), dao.transactionHeaders[1].header, tip)
    /\ dao.maturity = calcDaoClaimEpoch(dao.transactionHeaders[1].header, tip)
    /\ dao = Deposit(dao.cell, dao.transactionHeaders[1], tip)

\* C12: after any sequence of update(tip_1), ..., update(tip_n) the cell and
\* the single transaction header of a Deposit are unchanged, and its interests
\* and maturity are those of a Deposit freshly constructed from the same cell,
\* the same deposit header and tip_n, whatever the earlier tips were.
C12_UpdateIsReprojection ==
    /\ []DepositIsFreshProjection
    /\ [][/\ dao'.cell = dao.cell
          /\ dao'.transactionHeaders = dao.transactionHeaders]_vars

\* A deposit updated to a tip a whole number of lock periods after it, at the
\* same position: the maturity is one period after the tip, interests accrued.
C12_Witness ==
    /\ last.op = "update"
    /\ tip.epoch = <<tip.epoch[1], 0, tip.epoch[3]>>
    /\ (tip.epoch[1] - DepositEpoch[1]) % LockPeriod = 0
    /\ tip.epoch[1] > DepositEpoch[1]
    /\ DepositEpoch[2] = 0
    /\ dao.maturity[1] = tip.epoch[1] + LockPeriod
    /\ dao.interests > 0

\* C13: a successful withdraw appends exactly one input per withdrawal request,
\* in the order of the list, each the request's cell with an absolute,
\* epoch-denominated since equal to the request's maturity; it appends no
\* output and changes no existing input, output or output data.
C13_WithdrawEffect ==
    (last.op = "withdraw" /\ last.error = "none") =>
        LET n0 == Len(last.pre.inputs)
        IN  /\ Len(tx.inputs) = n0 + Len(last.batch)
            /\ SubSeq(tx.inputs, 1, n0) = last.pre.inputs
            /\ tx.outputs = last.pre.outputs
            /\ tx.outputsData = last.pre.outputsData
            /\ \A k \in 0..(Len(last.batch) - 1) :
                  LET input == tx.inputs[n0 + k + 1]
                      r == last.batch[k + 1]
                  IN  /\ input.outPoint = r.cell.outPoint
                      /\ input.cellOutput = r.cell.cellOutput
                      /\ input.outputData = r.cell.outputData
                      /\ input.since # None
                      /\ input.since[1].relative = "absolute"
                      /\ input.since[1].metric = "epoch"
                      /\ input.since[1].value = r.maturity

\* A successful withdraw of two requests of different maturities on a
\* transaction that held an input and an output.
C13_Witness ==
    /\ last.op = "withdraw" /\ last.error = "none"
    /\ Len(last.batch) = 2
    /\ last.batch[1].maturity # last.batch[2].maturity
    /\ Len(last.pre.inputs) > 0 /\ Len(last.pre.outputs) > 0

\* How many times a cell-dep occurs in a list of cell-deps.
Occurrences(deps, dep) == Cardinality({ i \in 1..Len(deps) : deps[i] = dep })

\* C14: deposit never fails and appends one output per capacity, in order, with
\* that capacity, the given lock, the DAO type script and the data of 8 zero
\* bytes, so that each is a deposit; inputs, header-deps, witnesses and the
\* earlier outputs are unchanged, and the DAO cell-deps are never duplicated.
C14_DepositEffect ==
    /\ last.op = "deposit" =>
          LET n0 == Len(last.pre.outputs)
          IN  /\ last.error = "none"
              /\ Len(tx.outputs) = n0 + Len(last.capacities)
              /\ SubSeq(tx.outputs, 1, n0) = last.pre.outputs
              /\ \A i \in 1..Len(last.pre.outputsData) :
                    i <= n0 => tx.outputsData[i] = last.pre.outputsData[i]
              /\ \A k \in 0..(Len(last.capacities) - 1) :
                    /\ tx.outputs[n0 + k + 1].capacity = last.capacities[k + 1]
                    /\ tx.outputs[n0 + k + 1].lock = last.lock
                    /\ tx.outputs[n0 + k + 1].type = Some(DaoScript)
                    /\ tx.outputsData[n0 + k + 1] = <<0, 0, 0, 0, 0, 0, 0, 0>>
                    /\ isDeposit([cellOutput |-> tx.outputs[n0 + k + 1],
                                  outputData |-> tx.outputsData[n0 + k + 1]])
              /\ tx.inputs = last.pre.inputs
              /\ tx.headerDeps = last.pre.headerDeps
              /\ tx.witnesses = last.pre.witnesses
              /\ SubSeq(tx.cellDeps, 1, Len(last.pre.cellDeps)) = last.pre.cellDeps
              /\ \A i \in 1..Len(DaoCellDeps) : Occurrences(tx.cellDeps, DaoCellDeps[i]) = 1
    /\ \A i \in 1..Len(DaoCellDeps) : Occurrences(tx.cellDeps, DaoCellDeps[i]) <= 1

\* A second deposit, of two capacities, on a transaction that a first deposit
\* gave an output and the DAO cell-deps.
C14_Witness ==
    /\ last.op = "deposit"
    /\ calls = 2
    /\ Len(last.capacities) = 2
    /\ Occurrences(last.pre.cellDeps, DaoCellDeps[1]) = 1
    /\ \E i \in 1..Len(last.pre.outputs) : last.pre.outputs[i].type = Some(DaoScript)
    /\ Len(last.pre.outputsData) = Len(last.pre.outputs)
    /\ last.pre.outputsData[Len(last.pre.outputs)] = depositData

\* Cells of several capacities, the smallest with no free capacity at all.
ProbeCells == { DepositCell("d0", capacity, LockA) : capacity \in {83, 84, 200, 1000} }

\* C15: with one header h of non-zero accumulated rate as deposit and as
\* withdraw header the interest of every cell is 0; a Deposit constructed with
\* or updated to a tip equal to its deposit header has interests 0.
C15_ZeroElapsedZeroInterest ==
    /\ tip.ar # 0 =>
          \A cell \in ProbeCells :
              DaoCellInterests(cell, TransactionHeader(tip, Some("d0")),
                               TransactionHeader(tip, None)) = 0
    /\ (tip = dao.transactionHeaders[1].header /\ tip.ar # 0) => dao.interests = 0

\* A deposit updated to a tip that is its deposit header.
C15_Witness ==
    /\ last.op = "update"
    /\ tip = dao.transactionHeaders[1].header
    /\ capacityFree(dao.cell) > 0
    /\ dao.interests = 0

----------------------------------------------------------------------------
(* Comparison of epochs and of the maturities of cells *)

\* Epochs of two numbers; some mark the same point of their epoch with other
\* lengths, some have an index that is not below the length.
CompareEpochs ==
    { <<n, p[1], p[2]>> :
        n \in {5, 6},
        p \in {<<0, 1>>, <<0, 2>>, <<1, 2>>, <<2, 4>>, <<2, 2>>, <<3, 2>>} }

\* Deposits of maturity (280,0,1), (460,0,1), (460,0,2) and (460,1,2).
CompareCells ==
    { Deposit(DepositCell("d0", 200, LockA),
              TransactionHeader(HeaderAtEpoch(p[1]), Some("d0")), HeaderAtEpoch(p[2])) :
        p \in { <<(<<100, 0, 1>>), (<<100, 0, 1>>)>>,
                <<(<<100, 0, 1>>), (<<300, 0, 1>>)>>,
                <<(<<280, 0, 2>>), (<<290, 0, 2>>)>>,
                <<(<<280, 1, 2>>), (<<290, 0, 2>>)>> } }

InitCompare ==
    /\ found \in CompareEpochs \X CompareEpochs \X CompareEpochs
    /\ dao \in CompareCells
    /\ last = [op |-> "none", args |-> <<>>, result |-> 0]
    /\ tx \in { t \in InitialTransactions :
                  t.inputs = <<>> /\ t.outputs = <<>> /\ t.witnesses = <<>>
                  /\ t.headerDeps = <<>> }
    /\ calls = 0
    /\ tip = TipHeader
    /\ client = <<>>

EpochCompareCall(a, b) ==
    /\ last' = [op |-> "epochCompare", args |-> <<a, b>>, result |-> epochCompare(a, b)]
    /\ UNCHANGED <<tx, calls, dao, tip, client, found>>

MaturityCompareCall(other) ==
    /\ last' = [op |-> "maturityCompare", args |-> <<other>>,
                result |-> maturityCompare(dao, other)]
    /\ UNCHANGED <<tx, calls, dao, tip, client, found>>

NextCompare ==
    \/ \E i, j \in 1..3 : EpochCompareCall(found[i], found[j])
    \/ \E other \in CompareCells : MaturityCompareCall(other)

SpecCompare == InitCompare /\ [][NextCompare]_vars

\* A call of epochCompare returned what the function gives for its arguments.
CompareCallResult ==
    last.op = "epochCompare" => last.result = epochCompare(last.args[1], last.args[2])

\* maturityCompare(x, y) returns exactly compare(x.maturity, y.maturity).
MaturityCompareDelegates ==
    last.op = "maturityCompare" =>
        last.result = epochCompare(dao.maturity, last.args[1].maturity)

\* compare(a,a) = equal, compare(a,b) = less iff compare(b,a) = greater, and
\* compare is transitive, for the three epochs of the state.
CompareReflexiveAntisymmetricTransitive ==
    \A a \in {found[1], found[2], found[3]} :
        /\ epochCompare(a, a) = 0
        /\ \A b \in {found[1], found[2], found[3]} :
              /\ epochCompare(a, b) \in {-1, 0, 1}
              /\ epochCompare(a, b) = -1 <=> epochCompare(b, a) = 1
              /\ epochCompare(a, b) = 0 <=> epochCompare(b, a) = 0
              /\ \A c \in {found[1], found[2], found[3]} :
                    /\ (epochCompare(a, b) <= 0 /\ epochCompare(b, c) <= 0)
                          => epochCompare(a, c) <= 0
                    /\ (epochCompare(a, b) = -1 /\ epochCompare(b, c) <= 0)
                          => epochCompare(a, c) = -1
                    /\ (epochCompare(a, b) <= 0 /\ epochCompare(b, c) = -1)
                          => epochCompare(a, c) = -1

\* C16: epoch comparison is a strict total order: compare(a,a) = equal,
\* compare(a,b) = less iff compare(b,a) = greater, compare(a,b) = equal only for
\* a = b, compare is transitive; maturityCompare(x, y) returns exactly
\* compare(x.maturity, y.maturity).
C16_StrictTotalOrder ==
    /\ CompareCallResult
    /\ CompareReflexiveAntisymmetricTransitive
    /\ \A a, b \in {found[1], found[2], found[3]} : epochCompare(a, b) = 0 => a = b
    /\ MaturityCompareDelegates

\* C16 (amended): epoch comparison is a total preorder: compare(a,a) = equal,
\* compare(a,b) = less iff compare(b,a) = greater, compare is transitive, and
\* compare(a,b) = equal exactly when a and b have the same number and
\* a.index * b.length = b.index * a.length; maturityCompare(x, y) returns
\* exactly compare(x.maturity, y.maturity).
C16_TotalPreorder ==
    /\ CompareCallResult
    /\ CompareReflexiveAntisymmetricTransitive
    /\ \A a, b \in {found[1], found[2], found[3]} :
          epochCompare(a, b) = 0 <=> (a[1] = b[1] /\ a[2] * b[3] = b[2] * a[3])
    /\ MaturityCompareDelegates

\* Two cells of different maturity compared, among epochs of which two
\* different ones compare equal.
C16_Witness ==
    /\ last.op = "maturityCompare"
    /\ last.result # 0
    /\ found[1] # found[2]
    /\ epochCompare(found[1], found[2]) = 0
    /\ epochCompare(found[2], found[3]) = -1

----------------------------------------------------------------------------
(* The cells requestWithdrawal creates *)

\* The cell the output at position p (0-based) of the transaction creates.
OutputCellAt(p) == Cell("tx", p, tx.outputs[p + 1].capacity, tx.outputs[p + 1].lock,
                        tx.outputs[p + 1].type, tx.outputsData[p + 1])

\* C17: the output requestWithdrawal appended for a deposit it processed,
\* whatever the number of the deposit block (0 included), satisfies
\* isWithdrawalRequest and does not satisfy isDeposit: its output data is
\* never the sentinel of 8 zero bytes.
C17_OutputsAreWithdrawalRequests ==
    last.op = "requestWithdrawal" =>
        \A k \in 0..(Processed - 1) :
            LET cell == OutputCellAt(Len(last.pre.inputs) + k)
            IN  /\ isWithdrawalRequest(cell)
                /\ ~isDeposit(cell)
                /\ cell.outputData # depositData

----------------------------------------------------------------------------
(* The order of the builder calls on one transaction *)

----------------------------------------------------------------------------
(* The header index a withdraw wrote, under the calls that follow *)

\* In transaction t the input at position p (0-based) is the cell of request r
\* as withdraw adds it, the witness at p encodes the index i, and the
\* header-dep at i is the hash of the deposit header of r.
WrittenAt(t, p, i, r) ==
    /\ p < Len(t.inputs)
    /\ t.inputs[p + 1] = WithdrawInput(r)
    /\ p < Len(t.witnesses)
    /\ t.witnesses[p + 1] # None
    /\ t.witnesses[p + 1][1].inputType = Some(numLeToBytes(i, 8))
    /\ i < Len(t.headerDeps)
    /\ t.headerDeps[i + 1] = r.transactionHeaders[1].header.hash

\* The requests with a deposit header, the positions and the indexes of a
\* transaction.
WrittenCandidates(t) ==
    { c \in (0..(Len(t.inputs) - 1)) \X (0..(Len(t.headerDeps) - 1))
              \X { r \in WithdrawalRequestPool : r.transactionHeaders # <<>> } :
        WrittenAt(t, c[1], c[2], c[3]) }

====
